---- MODULE Spec2Model ----
(***************************************************************************)
(* A model of ctftime.py: the CTFTime scraper (fetch_page, parse_events,   *)
(* filter_upcoming_week_events) and the Discord bot around it (check_ctfs, *)
(* send_ctf_notification, the ctf_check and next_ctfs commands, on_ready). *)
(*                                                                         *)
(* Text that the code splits, strips or slices is a sequence of one-       *)
(* character strings; text that the code only concatenates or passes on    *)
(* is a string.                                                            *)
(***************************************************************************)
EXTENDS Integers, Sequences, FiniteSets, TLC

VARIABLES
    html,       \* parse_events: the markup handed to it
    parsed,     \* parse_events: what the call produced (NotRun before it)
    now,        \* datetime.now(pytz.UTC).date()
    events,     \* the events handed to the filter, or to send_ctf_notification
    filtered,   \* filter_upcoming_week_events: what the call produced
    message,    \* send_ctf_notification: the embed it sent
    ready,      \* where on_ready stands
    auto,       \* check_ctfs as on_ready runs it: its response and its sends
    cmd         \* the command being handled: its arguments, response and sends

vars == <<html, parsed, now, events, filtered, message, ready, auto, cmd>>

NotRun == [status |-> "not_run"]

\* The classes of exception of the model; each derives from Exception.
ExceptionClasses ==
    {"AttributeError", "TypeError", "ValueError", "ClientError", "TimeoutError",
     "ParserRejectedMarkup", "HTTPException"}
NoError == "no_error"

Min(a, b) == IF a < b THEN a ELSE b
Max(a, b) == IF a > b THEN a ELSE b

(***************************************************************************)
(* Bounds of the model.                                                    *)
(***************************************************************************)
MaxRows == 2        \* rows of the events table
MaxText == 5        \* characters of a date cell, where every text is tried
MaxEvents == 2      \* events handed to the filter
YearSpan == 1       \* the years after 2024 that "now" is drawn from
MaxUpcoming == 12   \* events handed to send_ctf_notification
MaxLimit == 2       \* the limit given to next_ctfs, from -MaxLimit to MaxLimit

(***************************************************************************)
(* Python str operations on sequences of characters.                       *)
(***************************************************************************)
\* The separator of line 94, U+2014 (EM DASH), written in ASCII.
EmDash == "--"
Space == " "

\* c.isspace(), for the characters of the model
IsSpace(c) == c = Space

RECURSIVE LStrip(_)
LStrip(s) == IF s # <<>> /\ IsSpace(Head(s)) THEN LStrip(Tail(s)) ELSE s

RECURSIVE RStrip(_)
RStrip(s) ==
    IF s # <<>> /\ IsSpace(s[Len(s)]) THEN RStrip(SubSeq(s, 1, Len(s) - 1)) ELSE s

\* str.strip()
Strip(s) == RStrip(LStrip(s))

\* sep in s
Contains(s, sep) == \E i \in 1..Len(s) : s[i] = sep

\* s.split(sep), sep a single character
RECURSIVE Split(_, _)
Split(s, sep) ==
    IF ~Contains(s, sep) THEN <<s>>
    ELSE LET i == CHOOSE k \in 1..Len(s) :
                    s[k] = sep /\ \A j \in 1..(k - 1) : s[j] # sep
         IN <<SubSeq(s, 1, i - 1)>> \o Split(SubSeq(s, i + 1, Len(s)), sep)

Unknown == <<"U", "n", "k", "n", "o", "w", "n">>
To == <<" ", "t", "o", " ">>

(***************************************************************************)
(* CTFScraper.parse_events                                                 *)
(***************************************************************************)
base_url == "https://ctftime.org"

\* The text of no characters: "" in the code, and a body BeautifulSoup finds
\* nothing in.
EmptyBody ==
    [empty |-> TRUE, rejected |-> FALSE, table |-> FALSE, tbody |-> FALSE, trs |-> <<>>]

\* `except Exception` in fetch_page
FetchHandles(exc) == exc \in ExceptionClasses

\* StatusBody without the test of line 44
StatusBodyAnyStatus(response) == response.body

\* lines 44-48: what a response's status makes of its body
StatusBody(response) == IF response.status = 200 THEN response.body ELSE EmptyBody

\* fetch_page, given what the GET ends in: a response or an exception
fetch_page(response) ==
    IF response.kind = "exception"
    THEN IF FetchHandles(response.exc) THEN [status |-> "returned", html |-> EmptyBody]
         ELSE [status |-> "raised", exc |-> response.exc, html |-> EmptyBody]
    ELSE [status |-> "returned", html |-> StatusBody(response)]

\* a cell without <a>: find('a') gives None
NoLink == [none |-> TRUE]
NoHref == "no_href"


CTFEvent(title, start_time, duration, url, format_type) ==
    [title |-> title, start_time |-> start_time, duration |-> duration,
     url |-> url, format_type |-> format_type]

\* title_link.get('href', '')
GetHref(link) == IF link.href = NoHref THEN "" ELSE link.href

\* Duration without the test of line 96
DurationAnyParts(date_text) ==
    IF Contains(date_text, EmDash)
    THEN Strip(Split(date_text, EmDash)[1]) \o To \o Strip(Split(date_text, EmDash)[2])
    ELSE Unknown

\* lines 93-100: the duration text
Duration(date_text) ==
    IF Contains(date_text, EmDash)
    THEN LET parts == Split(date_text, EmDash)
         IN IF Len(parts) = 2
            THEN Strip(parts[1]) \o To \o Strip(parts[2])
            ELSE Unknown
    ELSE Unknown

\* line 103: the start text
StartTime(date_text) ==
    IF Contains(date_text, EmDash)
    THEN Strip(Split(date_text, EmDash)[1])
    ELSE date_text

\* RowHandles with `except ValueError` in line 108
RowHandlesValueError(exc) == exc = "ValueError"

\* `except Exception` around a row's body
RowHandles(exc) == exc \in ExceptionClasses

\* The body of the loop for one row: "skip" (continue), "raise", or "event".
ParseRow(row) ==
    IF row.fault # NoError THEN [kind |-> "raise", exc |-> row.fault]
    ELSE IF Len(row.cells) < 4 THEN [kind |-> "skip"]
    ELSE IF row.cells[1].link = NoLink THEN [kind |-> "skip"]
    ELSE LET title_link == row.cells[1].link
             title == Strip(title_link.text)
             event_url == base_url \o GetHref(title_link)
             date_text == Strip(row.cells[2].text)
             format_type == Strip(row.cells[3].text)
         IN [kind |-> "event",
             event |-> CTFEvent(title, StartTime(date_text), Duration(date_text),
                                event_url, format_type)]

\* The loop over the rows: the events so far, or "raised" when an exception
\* leaves the loop.
RECURSIVE ParseRows(_, _)

\* r is what the body did with the first of rows
ParseNext(rows, acc, r) ==
    CASE r.kind = "event" -> ParseRows(Tail(rows), Append(acc, r.event))
      [] r.kind = "skip" -> ParseRows(Tail(rows), acc)
      [] r.kind = "raise" ->
            IF RowHandles(r.exc) THEN ParseRows(Tail(rows), acc)
            ELSE [status |-> "raised", exc |-> r.exc, events |-> acc]

ParseRows(rows, acc) ==
    IF rows = <<>> THEN [status |-> "returned", events |-> acc]
    ELSE ParseNext(rows, acc, ParseRow(Head(rows)))

\* line 65: the rows of the table
TableRows(table) ==
    IF table.tbody THEN table.trs
    ELSE IF table.trs = <<>> THEN <<>> ELSE Tail(table.trs)

parse_events(page) ==
    IF page.rejected THEN [status |-> "raised", exc |-> "ParserRejectedMarkup", events |-> <<>>]
    ELSE IF ~page.table THEN [status |-> "returned", events |-> <<>>]
    ELSE ParseRows(TableRows(page), <<>>)

(***************************************************************************)
(* datetime.date: a date is <<year, month, day>>.                          *)
(***************************************************************************)
IsLeap(y) == y % 4 = 0 /\ (y % 100 # 0 \/ y % 400 = 0)

DaysInMonth(y, m) ==
    CASE m \in {1, 3, 5, 7, 8, 10, 12} -> 31
      [] m \in {4, 6, 9, 11} -> 30
      [] m = 2 -> IF IsLeap(y) THEN 29 ELSE 28

\* datetime(year, month, day) raises ValueError unless this holds.
ValidDate(y, m, d) ==
    /\ y \in 1..9999
    /\ m \in 1..12
    /\ d \in 1..DaysInMonth(y, m)

\* date.__lt__ and date.__le__: the (year, month, day) triples compared
DateLt(a, b) ==
    \/ a[1] < b[1]
    \/ a[1] = b[1] /\ a[2] < b[2]
    \/ a[1] = b[1] /\ a[2] = b[2] /\ a[3] < b[3]

DateLe(a, b) == a = b \/ DateLt(a, b)

DaysBeforeYear(y) == (y - 1) * 365 + (y - 1) \div 4 - (y - 1) \div 100 + (y - 1) \div 400

RECURSIVE DaysBeforeMonth(_, _)
DaysBeforeMonth(y, m) ==
    IF m = 1 THEN 0 ELSE DaysBeforeMonth(y, m - 1) + DaysInMonth(y, m - 1)

\* date.toordinal()
ToOrdinal(date) == DaysBeforeYear(date[1]) + DaysBeforeMonth(date[1], date[2]) + date[3]

\* date.fromordinal(n): the year, then the month, then the day
RECURSIVE YearOfOrdinal(_, _)
YearOfOrdinal(n, y) ==
    IF n > DaysBeforeYear(y + 1) THEN YearOfOrdinal(n, y + 1) ELSE y

RECURSIVE MonthDayOf(_, _, _)
MonthDayOf(n, y, m) ==
    IF n > DaysInMonth(y, m) THEN MonthDayOf(n - DaysInMonth(y, m), y, m + 1)
    ELSE <<y, m, n>>

FromYear(n, y) == MonthDayOf(n - DaysBeforeYear(y), y, 1)

FromOrdinal(n) == FromYear(n, YearOfOrdinal(n, n \div 366 + 1))

\* date + timedelta(days=n)
AddDays(date, n) == FromOrdinal(ToOrdinal(date) + n)

(***************************************************************************)
(* re.search(r'(\d{1,2})\s+(\w+)\.?,?\s*(?:(\d{4}),?)?\s*(\d{1,2}:\d{2})', *)
(* time_str), line 131: the leftmost match, each quantifier greedy and     *)
(* giving back one repetition at a time when the rest fails.               *)
(***************************************************************************)
Digits == {"0", "1", "2", "3", "4", "5", "6", "7", "8", "9"}
Letters ==
    {"A", "B", "C", "D", "E", "F", "G", "H", "I", "J", "K", "L", "M",
     "N", "O", "P", "Q", "R", "S", "T", "U", "V", "W", "X", "Y", "Z",
     "a", "b", "c", "d", "e", "f", "g", "h", "i", "j", "k", "l", "m",
     "n", "o", "p", "q", "r", "s", "t", "u", "v", "w", "x", "y", "z"}

\* s[i], or "" past the end
At(s, i) == IF i \in 1..Len(s) THEN s[i] ELSE ""

IsDigit(c) == c \in Digits          \* \d
IsWord(c) == c \in Letters \cup Digits \cup {"_"}     \* \w

NoMatch == [ok |-> FALSE]
\* a group that took no part in the match (None in the code)
NoGroup == <<>>

\* how many \s, and how many \w, stand at s[i], s[i+1], ...
RECURSIVE SpaceRun(_, _)
SpaceRun(s, i) == IF IsSpace(At(s, i)) THEN 1 + SpaceRun(s, i + 1) ELSE 0

RECURSIVE WordRun(_, _)
WordRun(s, i) == IF IsWord(At(s, i)) THEN 1 + WordRun(s, i + 1) ELSE 0

\* (\d{1,2}:\d{2}) at i
TimeAt(s, i) ==
    \/ /\ IsDigit(At(s, i)) /\ IsDigit(At(s, i + 1)) /\ At(s, i + 2) = ":"
       /\ IsDigit(At(s, i + 3)) /\ IsDigit(At(s, i + 4))
    \/ /\ IsDigit(At(s, i)) /\ At(s, i + 1) = ":"
       /\ IsDigit(At(s, i + 2)) /\ IsDigit(At(s, i + 3))

\* \s*(\d{1,2}:\d{2}) at i
SpacesTime(s, i) == \E j \in 0..SpaceRun(s, i) : TimeAt(s, i + j)

\* (?:(\d{4}),?)?\s*(\d{1,2}:\d{2}) at i: the year group is tried first
YearTime(s, i) ==
    IF /\ \A k \in 0..3 : IsDigit(At(s, i + k))
       /\ \/ At(s, i + 4) = "," /\ SpacesTime(s, i + 5)
          \/ SpacesTime(s, i + 4)
    THEN [ok |-> TRUE, year |-> SubSeq(s, i, i + 3)]
    ELSE IF SpacesTime(s, i) THEN [ok |-> TRUE, year |-> NoGroup] ELSE NoMatch

\* the first alternative that matches
OrElse(first, second) == IF first.ok THEN first ELSE second

\* \s* taking j characters, then the rest; j counts down from the whole run
RECURSIVE SpacesYearTime(_, _, _)
SpacesYearTime(s, i, j) ==
    IF j < 0 THEN NoMatch
    ELSE OrElse(YearTime(s, i + j), SpacesYearTime(s, i, j - 1))

\* ,? then the rest
CommaRest(s, i) ==
    OrElse(IF At(s, i) = "," THEN SpacesYearTime(s, i + 1, SpaceRun(s, i + 1)) ELSE NoMatch,
           SpacesYearTime(s, i, SpaceRun(s, i)))

\* \.? then the rest
DotRest(s, i) ==
    OrElse(IF At(s, i) = "." THEN CommaRest(s, i + 1) ELSE NoMatch, CommaRest(s, i))

\* group 2 added to a match of what follows it
WithMonth(rest, month_str) ==
    IF rest.ok THEN [ok |-> TRUE, month_str |-> month_str, year |-> rest.year] ELSE NoMatch

\* (\w+) taking j characters, then the rest
RECURSIVE WordRest(_, _, _)
WordRest(s, i, j) ==
    IF j < 1 THEN NoMatch
    ELSE OrElse(WithMonth(DotRest(s, i + j), SubSeq(s, i, i + j - 1)), WordRest(s, i, j - 1))

\* \s+ taking j characters, then the rest
RECURSIVE SpacesWordRest(_, _, _)
SpacesWordRest(s, i, j) ==
    IF j < 1 THEN NoMatch
    ELSE OrElse(WordRest(s, i + j, WordRun(s, i + j)), SpacesWordRest(s, i, j - 1))

\* group 1 added to a match of what follows it
WithDay(rest, day) ==
    IF rest.ok THEN [ok |-> TRUE, day |-> day, month_str |-> rest.month_str,
                     year |-> rest.year]
    ELSE NoMatch

\* the whole pattern at i: (\d{1,2}) takes two digits, then one
MatchAt(s, i) ==
    OrElse(IF IsDigit(At(s, i)) /\ IsDigit(At(s, i + 1))
           THEN WithDay(SpacesWordRest(s, i + 2, SpaceRun(s, i + 2)), SubSeq(s, i, i + 1))
           ELSE NoMatch,
           IF IsDigit(At(s, i))
           THEN WithDay(SpacesWordRest(s, i + 1, SpaceRun(s, i + 1)), SubSeq(s, i, i))
           ELSE NoMatch)

\* re.search: the first position the pattern matches at; NoMatch (None in the
\* code) without one
RECURSIVE SearchFrom(_, _)
SearchFrom(s, i) ==
    IF i > Len(s) THEN NoMatch
    ELSE OrElse(MatchAt(s, i), SearchFrom(s, i + 1))

date_match(time_str) == SearchFrom(time_str, 1)

DigitValue(c) ==
    CASE c = "0" -> 0 [] c = "1" -> 1 [] c = "2" -> 2 [] c = "3" -> 3 [] c = "4" -> 4
      [] c = "5" -> 5 [] c = "6" -> 6 [] c = "7" -> 7 [] c = "8" -> 8 [] c = "9" -> 9

\* int(digits)
RECURSIVE IntOf(_)
IntOf(ds) == IF ds = <<>> THEN 0 ELSE 10 * IntOf(SubSeq(ds, 1, Len(ds) - 1)) + DigitValue(ds[Len(ds)])

(***************************************************************************)
(* CTFScraper.filter_upcoming_week_events                                  *)
(***************************************************************************)
Jan == <<"J", "a", "n">>
Feb == <<"F", "e", "b">>
Mar == <<"M", "a", "r">>
Apr == <<"A", "p", "r">>
May == <<"M", "a", "y">>
Jun == <<"J", "u", "n">>
Jul == <<"J", "u", "l">>
Aug == <<"A", "u", "g">>
Sep == <<"S", "e", "p">>
Oct == <<"O", "c", "t">>
Nov == <<"N", "o", "v">>
Dec == <<"D", "e", "c">>

month_names ==
    (Jan :> 1) @@ (Feb :> 2) @@ (Mar :> 3) @@ (Apr :> 4) @@ (May :> 5) @@ (Jun :> 6) @@
    (Jul :> 7) @@ (Aug :> 8) @@ (Sep :> 9) @@ (Oct :> 10) @@ (Nov :> 11) @@ (Dec :> 12)

\* month_names.get(month_str[:3], 1)
MonthOf(month_str) ==
    LET key == SubSeq(month_str, 1, Min(3, Len(month_str)))
    IN IF key \in DOMAIN month_names THEN month_names[key] ELSE 1

\* ResolveYear with `<=` for `<` in line 147
ResolveYearRollsToday(today, month, day) ==
    IF DateLe(<<today[1], month, day>>, today) THEN today[1] + 1 ELSE today[1]

\* lines 144-150: the year of a start text that carries none
ResolveYear(today, month, day) ==
    LET current_year == today[1]
        event_date_this_year == <<current_year, month, day>>
    IN IF DateLt(event_date_this_year, today) THEN current_year + 1 ELSE current_year

\* InWeek with `<` for the second `<=` in line 155
InWeekOpenEnd(today, event_date) ==
    DateLe(today, event_date) /\ DateLt(event_date, AddDays(today, 7))

\* line 155: the window test
InWeek(today, event_date) ==
    DateLe(today, event_date) /\ DateLe(event_date, AddDays(today, 7))

\* lines 133-159: what the loop's body does with a match m
FilterMatch(today, m) ==
    LET day == IntOf(m.day)
        month == MonthOf(m.month_str)
    IN IF m.year = NoGroup /\ ~ValidDate(today[1], month, day)
       THEN [kind |-> "raise", exc |-> "ValueError"]
       ELSE LET year == IF m.year = NoGroup
                        THEN ResolveYear(today, month, day)
                        ELSE IntOf(m.year)
            IN IF ~ValidDate(year, month, day)
               THEN [kind |-> "raise", exc |-> "ValueError"]
               ELSE [kind |-> IF InWeek(today, <<year, month, day>>)
                              THEN "added" ELSE "skipped",
                     event_date |-> <<year, month, day>>]

\* line 132: without a match the body does nothing
IfMatch(today, m) == IF m.ok THEN FilterMatch(today, m) ELSE [kind |-> "nomatch"]

\* The body of the loop for one event: what it does with it.
FilterEvent(today, event) == IfMatch(today, date_match(event.start_time))

\* FilterHandles with `except KeyError` in line 161
FilterHandlesKeyError(exc) == exc = "KeyError"

\* `except Exception` around an event's body
FilterHandles(exc) == exc \in ExceptionClasses

\* The loop over the events: upcoming_events and what was logged for each
\* event, or "raised" when an exception leaves the loop.
RECURSIVE FilterLoop(_, _, _, _)

\* r is what the body did with the first of evs
FilterNext(today, evs, upcoming, log, r) ==
    CASE r.kind = "added" ->
            FilterLoop(today, Tail(evs), Append(upcoming, Head(evs)), Append(log, r))
      [] r.kind \in {"skipped", "nomatch"} ->
            FilterLoop(today, Tail(evs), upcoming, Append(log, r))
      [] r.kind = "raise" ->
            IF FilterHandles(r.exc)
            THEN FilterLoop(today, Tail(evs), upcoming, Append(log, r))
            ELSE [status |-> "raised", exc |-> r.exc, upcoming |-> upcoming,
                  log |-> Append(log, r)]

FilterLoop(today, evs, upcoming, log) ==
    IF evs = <<>> THEN [status |-> "returned", upcoming |-> upcoming, log |-> log]
    ELSE FilterNext(today, evs, upcoming, log, FilterEvent(today, Head(evs)))

filter_upcoming_week_events(today, evs) == FilterLoop(today, evs, <<>>, <<>>)

(***************************************************************************)
(* CTFBot: the embeds, and the sends to a channel.                         *)
(*                                                                         *)
(* A handler's sends are numbered 1, 2, ... in the order it makes them;    *)
(* `fails` holds the numbers of those that raise discord.HTTPException     *)
(* instead of delivering.                                                  *)
(***************************************************************************)
FieldLimit == 10
DefaultLimit == 5

\* seq[:k]
SliceTo(seq, k) ==
    IF k >= 0 THEN SubSeq(seq, 1, Min(k, Len(seq)))
    ELSE SubSeq(seq, 1, Max(0, Len(seq) + k))

\* embed.add_field for an event, lines 211-215 and 274-278
EventField(event) ==
    [name |-> event.title, start |-> event.start_time, duration |-> event.duration,
     format |-> event.format_type, link |-> event.url]

\* embed.add_field for the note, lines 218-222
NoteField(more) == [name |-> "Note", more |-> more]

EventFields(evs) == [i \in 1..Len(evs) |-> EventField(evs[i])]

\* NotificationEmbed with `>=` for `>` in line 217
NotificationEmbedNoteAtLimit(evs) ==
    [title |-> "Upcoming CTFs This Week",
     fields |-> EventFields(SliceTo(evs, FieldLimit))
                    \o (IF Len(evs) >= FieldLimit
                        THEN <<NoteField(Len(evs) - FieldLimit)>> ELSE <<>>),
     footer |-> "CTF Time Bot - Next 7 Days"]

\* lines 203-224: the embed of send_ctf_notification
NotificationEmbed(evs) ==
    [title |-> "Upcoming CTFs This Week",
     fields |-> EventFields(SliceTo(evs, FieldLimit))
                    \o (IF Len(evs) > FieldLimit
                        THEN <<NoteField(Len(evs) - FieldLimit)>> ELSE <<>>),
     footer |-> "CTF Time Bot - Next 7 Days"]

\* lines 266-280: the embed of next_ctfs; `count` is the number its description gives
NextEmbed(evs, limit) ==
    [title |-> "Next Upcoming CTFs",
     count |-> Min(limit, Len(evs)),
     fields |-> EventFields(SliceTo(evs, limit)),
     footer |-> "CTF Time Bot"]

TextMsg(text) == [kind |-> "text", text |-> text]
EmbedMsg(embed) == [kind |-> "embed", embed |-> embed]

\* channel.send / ctx.send: the attempt, delivered or not
Send(sends, msg, fails) ==
    Append(sends, [msg |-> msg, delivered |-> (Len(sends) + 1) \notin fails])

\* what a handler is left with after a send: it goes on, or the send raised
AfterSend(sends) ==
    IF sends[Len(sends)].delivered THEN [status |-> "returned", sends |-> sends]
    ELSE [status |-> "raised", exc |-> "HTTPException", sends |-> sends]

send_ctf_notification(sends, evs, fails) ==
    AfterSend(Send(sends, EmbedMsg(NotificationEmbed(evs)), fails))

Returned(sends) == [status |-> "returned", sends |-> sends]
Raised(exc, sends) == [status |-> "raised", exc |-> exc, sends |-> sends]

(***************************************************************************)
(* CTFBot.check_ctfs                                                       *)
(***************************************************************************)
\* lines 187-196, u what the filter returned
CheckNotify(u, channel, fails) ==
    IF u.status = "raised" THEN Raised(u.exc, <<>>)
    ELSE IF u.upcoming = <<>> THEN Returned(<<>>)
    ELSE IF ~channel THEN Returned(<<>>)
    ELSE send_ctf_notification(<<>>, u.upcoming, fails)

\* lines 184-185, p what parse_events returned
CheckFilter(p, today, channel, fails) ==
    IF p.status = "raised" THEN Raised(p.exc, <<>>)
    ELSE CheckNotify(filter_upcoming_week_events(today, p.events), channel, fails)

\* lines 178-181, f what fetch_page returned
CheckParse(f, today, channel, fails) ==
    IF f.status = "raised" THEN Raised(f.exc, <<>>)
    ELSE IF f.html.empty THEN Returned(<<>>)
    ELSE CheckFilter(parse_events(f.html), today, channel, fails)

\* CheckHandles with `except ValueError` in line 198
CheckHandlesValueError(exc) == exc = "ValueError"

\* `except Exception` of check_ctfs
CheckHandles(exc) == exc \in ExceptionClasses

\* lines 198-199, body what the try block came to
CheckExcept(body) ==
    IF body.status = "raised" /\ CheckHandles(body.exc) THEN Returned(body.sends)
    ELSE body

check_ctfs(response, today, channel, fails) ==
    CheckExcept(CheckParse(fetch_page(response), today, channel, fails))

(***************************************************************************)
(* CTFBot.manual_check, the command ctf_check                              *)
(***************************************************************************)
Checking == "Checking for upcoming CTFs in the next week..."
FetchFailed == "Failed to fetch CTFTime page"
NoneThisWeek == "No CTFs found for the next week!"
ErrorChecking == "Error checking CTFs"
NoneUpcoming == "No upcoming CTFs found!"
ErrorFetching == "Error fetching CTFs"

\* lines 243-246
ManualNotify(sends, u, fails) ==
    IF u.status = "raised" THEN Raised(u.exc, sends)
    ELSE IF u.upcoming # <<>> THEN send_ctf_notification(sends, u.upcoming, fails)
    ELSE AfterSend(Send(sends, TextMsg(NoneThisWeek), fails))

\* lines 240-241
ManualFilter(sends, p, today, fails) ==
    IF p.status = "raised" THEN Raised(p.exc, sends)
    ELSE ManualNotify(sends, filter_upcoming_week_events(today, p.events), fails)

\* lines 235-238
ManualParse(sends, f, today, fails) ==
    IF f.status = "raised" THEN Raised(f.exc, sends)
    ELSE IF f.html.empty THEN AfterSend(Send(sends, TextMsg(FetchFailed), fails))
    ELSE ManualFilter(sends, parse_events(f.html), today, fails)

\* `except Exception` of manual_check
ManualHandles(exc) == exc \in ExceptionClasses

\* lines 248-249
ManualExcept(body, fails) ==
    IF body.status = "raised" /\ ManualHandles(body.exc)
    THEN AfterSend(Send(body.sends, TextMsg(ErrorChecking), fails))
    ELSE body

\* line 232, then the try block
ManualTry(first, response, today, fails) ==
    IF first.status = "raised" THEN first
    ELSE ManualExcept(ManualParse(first.sends, fetch_page(response), today, fails), fails)

manual_check(response, today, fails) ==
    ManualTry(AfterSend(Send(<<>>, TextMsg(Checking), fails)), response, today, fails)

(***************************************************************************)
(* CTFBot.next_ctfs                                                        *)
(***************************************************************************)
\* lines 260-281
NextList(p, limit, fails) ==
    IF p.status = "raised" THEN Raised(p.exc, <<>>)
    ELSE IF p.events = <<>> THEN AfterSend(Send(<<>>, TextMsg(NoneUpcoming), fails))
    ELSE AfterSend(Send(<<>>, EmbedMsg(NextEmbed(p.events, limit)), fails))

\* lines 255-258
NextParse(f, limit, fails) ==
    IF f.status = "raised" THEN Raised(f.exc, <<>>)
    ELSE IF f.html.empty THEN AfterSend(Send(<<>>, TextMsg(FetchFailed), fails))
    ELSE NextList(parse_events(f.html), limit, fails)

\* `except Exception` of next_ctfs
NextHandles(exc) == exc \in ExceptionClasses

\* lines 283-284
NextExcept(body, fails) ==
    IF body.status = "raised" /\ NextHandles(body.exc)
    THEN AfterSend(Send(body.sends, TextMsg(ErrorFetching), fails))
    ELSE body

next_ctfs(response, limit, fails) ==
    NextExcept(NextParse(fetch_page(response), limit, fails), fails)

(***************************************************************************)
(* The inputs the calls are tried on.                                      *)
(***************************************************************************)
\* every sequence over S of at most n elements
SeqsUpTo(S, n) == UNION {[1..k -> S] : k \in 0..n}

DigitChar(d) ==
    CASE d = 0 -> "0" [] d = 1 -> "1" [] d = 2 -> "2" [] d = 3 -> "3" [] d = 4 -> "4"
      [] d = 5 -> "5" [] d = 6 -> "6" [] d = 7 -> "7" [] d = 8 -> "8" [] d = 9 -> "9"

\* str(n), n >= 0
RECURSIVE IntStr(_)
IntStr(n) == IF n < 10 THEN <<DigitChar(n)>> ELSE IntStr(n \div 10) \o <<DigitChar(n % 10)>>

TimeUTC == <<"1", "0", ":", "0", "0", " ", "U", "T", "C">>

\* A start text as the site writes it (line 125): "20 Aug., 10:00 UTC", or
\* "20 Aug. 2025, 10:00 UTC" with a year; year 0 stands for no year.
StartText(day, month_str, year) ==
    IntStr(day) \o <<" ">> \o month_str \o <<".">>
        \o (IF year = 0 THEN <<>> ELSE <<" ">> \o IntStr(year))
        \o <<",", " ">> \o TimeUTC

\* Texts the site's pattern does not match.
Unmatched == {<<>>, <<"T", "B", "A">>, <<"A", "u", "g", " ", "2", "0">>}

EventWith(start_time) == CTFEvent(<<"C", "T", "F">>, start_time, Unknown, base_url, <<>>)

MonthTokens == DOMAIN month_names \cup {<<"S", "e", "p", "t">>, <<"a", "u", "g">>}

\* Days of the month a start text names, 0 and 32 among them.
DayTokens == {0, 1, 5, 15, 20, 28, 29, 30, 31, 32}

Years == 2024..(2024 + YearSpan)

AllDates == {d \in Years \X (1..12) \X (1..31) : ValidDate(d[1], d[2], d[3])}

SampleNows == {<<2025, 8, 15>>, <<2024, 12, 28>>, <<2024, 2, 25>>}

SampleTexts ==
    {StartText(d, Aug, y) : d \in {0, 15, 22, 23}, y \in {0, 2025}}
        \cup {StartText(4, Jan, y) : y \in {0, 2025}}
        \cup {StartText(29, Feb, y) : y \in {0, 2025}}
        \cup Unmatched \cup {StartText(15, <<"A", "u">>, 0)}

\* A table cell: its text and the first <a> in it.
Cell(text, link) == [text |-> text, link |-> link]

Link(text, href) == [none |-> FALSE, text |-> text, href |-> href]

\* A table row of n cells: the title cell, the date cell, the format cell, others.
Row(n, link, date, fault) ==
    [cells |-> [i \in 1..n |->
                    CASE i = 1 -> Cell(<<>>, link)
                      [] i = 2 -> Cell(date, NoLink)
                      [] i = 3 -> Cell(<<" ", "O", "n", " ">>, NoLink)
                      [] OTHER -> Cell(<<>>, NoLink)],
     fault |-> fault]

Page(table, tbody, trs) ==
    [empty |-> FALSE, rejected |-> FALSE, table |-> table, tbody |-> tbody, trs |-> trs]

\* Markup that BeautifulSoup's html.parser gives up on (ParserRejectedMarkup).
RejectedPage ==
    [empty |-> FALSE, rejected |-> TRUE, table |-> FALSE, tbody |-> FALSE, trs |-> <<>>]

SampleLinks ==
    {NoLink, Link(<<" ", "A", " ">>, "/event/1"), Link(<<"B">>, "/event/2"),
     Link(<<"C">>, NoHref)}

SampleDates ==
    {StartText(20, Aug, 0) \o <<" ", EmDash, " ">> \o StartText(22, Aug, 2025),
     StartText(5, Jan, 0)}

SampleRows ==
    {Row(n, l, d, f) : n \in {3, 4, 5}, l \in SampleLinks, d \in SampleDates,
                       f \in {NoError, "AttributeError"}}

\* Pages with and without the table, with and without <tbody>.
TablePages ==
    {EmptyBody, RejectedPage, Page(FALSE, FALSE, <<>>)}
        \cup {Page(TRUE, b, rs) : b \in BOOLEAN, rs \in SeqsUpTo(SampleRows, MaxRows)}

\* One good row, its date cell holding every text of at most MaxText characters.
DateTexts == SeqsUpTo({EmDash, Space, "a"}, MaxText)

DatePages ==
    {Page(TRUE, TRUE, <<Row(4, Link(<<"A">>, "/event/1"), d, NoError)>>) : d \in DateTexts}

(***************************************************************************)
(* The calls, each on its own inputs.                                      *)
(***************************************************************************)
Idle == [status |-> "idle"]

ParseInit ==
    /\ html \in TablePages \cup DatePages
    /\ parsed = NotRun
    /\ now = Idle /\ events = Idle /\ filtered = Idle
    /\ message = Idle /\ ready = "off" /\ auto = Idle /\ cmd = Idle

ParseEvents ==
    /\ parsed = NotRun
    /\ html # Idle
    /\ parsed' = parse_events(html)
    /\ UNCHANGED <<html, now, events, filtered, message, ready, auto, cmd>>

SpecParse == ParseInit /\ [][ParseEvents]_vars

\* Every "now" of the years with one start text without a year, and a few
\* "now" with every sequence of the sample texts.
FilterInit ==
    /\ \/ /\ now \in AllDates
          /\ \E d \in DayTokens, m \in MonthTokens :
                events = <<EventWith(StartText(d, m, 0))>>
       \/ /\ now \in SampleNows
          /\ events \in SeqsUpTo({EventWith(x) : x \in SampleTexts}, MaxEvents)
    /\ filtered = NotRun
    /\ html = Idle /\ parsed = Idle
    /\ message = Idle /\ ready = "off" /\ auto = Idle /\ cmd = Idle

FilterUpcomingWeekEvents ==
    /\ filtered = NotRun
    /\ filtered' = filter_upcoming_week_events(now, events)
    /\ UNCHANGED <<html, parsed, now, events, message, ready, auto, cmd>>

SpecFilter == FilterInit /\ [][FilterUpcomingWeekEvents]_vars

NotifyInit ==
    /\ events \in SeqsUpTo({EventWith(StartText(20, Aug, 0)), EventWith(StartText(21, Aug, 0))},
                           MaxUpcoming) \ {<<>>}
    /\ message = NotRun
    /\ html = Idle /\ parsed = Idle /\ now = Idle /\ filtered = Idle
    /\ ready = "off" /\ auto = Idle /\ cmd = Idle

SendCtfNotification ==
    /\ message = NotRun
    /\ \E fails \in SUBSET {1} : message' = send_ctf_notification(<<>>, events, fails)
    /\ UNCHANGED <<html, parsed, now, events, filtered, ready, auto, cmd>>

SpecNotify == NotifyInit /\ [][SendCtfNotification]_vars

(***************************************************************************)
(* The bot: on_ready runs check_ctfs and closes the bot; until it has,     *)
(* the commands are handled, one after the other.                          *)
(***************************************************************************)
UpcomingRow ==
    Row(4, Link(<<" ", "A", " ">>, "/event/1"),
        StartText(20, Aug, 0) \o <<" ", EmDash, " ">> \o StartText(22, Aug, 2025), NoError)

LaterRow == Row(4, Link(<<"B">>, "/event/2"), StartText(5, Jan, 0), NoError)

BadRow == Row(3, NoLink, <<>>, NoError)

\* The pages the bot is served: without and with the table, of no row, one
\* row and two.
BotPages ==
    {EmptyBody, RejectedPage, Page(FALSE, FALSE, <<>>)}
        \cup {Page(TRUE, TRUE, rs) :
                rs \in {<<>>, <<UpcomingRow>>, <<LaterRow>>, <<BadRow>>,
                        <<UpcomingRow, LaterRow>>, <<LaterRow, UpcomingRow>>,
                        <<BadRow, UpcomingRow>>}}

\* What the GET ends in: a status with a body, or an exception.
Responses ==
    {[kind |-> "status", status |-> 200, body |-> b] : b \in BotPages}
        \cup {[kind |-> "status", status |-> st, body |-> b] :
                st \in {404, 503},
                b \in {Page(FALSE, FALSE, <<>>), Page(TRUE, TRUE, <<UpcomingRow>>)}}
        \cup {[kind |-> "exception", exc |-> e] : e \in {"ClientError", "TimeoutError"}}

Limits == ((0 - MaxLimit)..MaxLimit) \cup {DefaultLimit}

Connected == ready \in {"fetching", "closing", "crashed"}

BotInit ==
    /\ ready = "connecting"
    /\ auto = NotRun
    /\ cmd = Idle
    /\ now = <<2025, 8, 15>>
    /\ html = Idle /\ parsed = Idle /\ events = Idle /\ filtered = Idle /\ message = Idle

\* lines 288-293: the bot is connected, and check_ctfs starts and awaits the page
OnReady ==
    /\ ready = "connecting"
    /\ ready' = "fetching"
    /\ UNCHANGED <<html, parsed, now, events, filtered, message, auto, cmd>>

\* lines 178-199: the GET ends, and check_ctfs runs to its end; an exception
\* that leaves it ends on_ready before bot.close()
CheckCtfs ==
    /\ ready = "fetching"
    /\ \E response \in Responses, channel \in BOOLEAN, fails \in SUBSET {1} :
          LET result == check_ctfs(response, now, channel, fails)
          IN /\ auto' = [response |-> response, channel |-> channel, result |-> result]
             /\ ready' = IF result.status = "returned" THEN "closing" ELSE "crashed"
    /\ UNCHANGED <<html, parsed, now, events, filtered, message, cmd>>

\* line 294
BotClose ==
    /\ ready = "closing"
    /\ ready' = "closed"
    /\ UNCHANGED <<html, parsed, now, events, filtered, message, auto, cmd>>

\* !ctf_check
ManualCheck ==
    /\ Connected /\ cmd = Idle
    /\ \E response \in Responses, fails \in SUBSET (1..3) :
          cmd' = [name |-> "ctf_check", response |-> response, limit |-> DefaultLimit,
                  result |-> manual_check(response, now, fails)]
    /\ UNCHANGED <<html, parsed, now, events, filtered, message, ready, auto>>

\* !next_ctfs [limit]
NextCtfs ==
    /\ Connected /\ cmd = Idle
    /\ \E response \in Responses, limit \in Limits, fails \in SUBSET (1..2) :
          cmd' = [name |-> "next_ctfs", response |-> response, limit |-> limit,
                  result |-> next_ctfs(response, limit, fails)]
    /\ UNCHANGED <<html, parsed, now, events, filtered, message, ready, auto>>

\* the command's handler has returned
CommandDone ==
    /\ cmd # Idle
    /\ cmd' = Idle
    /\ UNCHANGED <<html, parsed, now, events, filtered, message, ready, auto>>

BotNext == OnReady \/ CheckCtfs \/ BotClose \/ ManualCheck \/ NextCtfs \/ CommandDone

SpecBot == BotInit /\ [][BotNext]_vars

\* The event loop runs on_ready's task on: the GET ends (aiohttp's timeout),
\* and bot.close() is awaited.
SpecBotFair == SpecBot /\ WF_vars(CheckCtfs) /\ WF_vars(BotClose)

(***************************************************************************)
(* The claims about filter_upcoming_week_events, under SpecFilter.         *)
(***************************************************************************)
FilterRan == filtered # NotRun /\ filtered # Idle

\* The calendar, one day at a time.
NextDay(date) ==
    IF date[3] < DaysInMonth(date[1], date[2]) THEN <<date[1], date[2], date[3] + 1>>
    ELSE IF date[2] < 12 THEN <<date[1], date[2] + 1, 1>>
    ELSE <<date[1] + 1, 1, 1>>

RECURSIVE PlusDays(_, _)
PlusDays(date, k) == IF k = 0 THEN date ELSE PlusDays(NextDay(date), k - 1)

\* The dates from today to today + 7 days.
Week(today) == {PlusDays(today, k) : k \in 0..7}

\* What the filter logged for event i carries the date it resolved.
HasDate(i) == filtered.log[i].kind \in {"added", "skipped"}

InTheWeek(i) == HasDate(i) /\ filtered.log[i].event_date \in Week(now)

\* The events at the places that Test holds of, in their order.
EventsWhere(Test(_)) ==
    LET places == SelectSeq([i \in 1..Len(events) |-> i], Test)
    IN [j \in 1..Len(places) |-> events[places[j]]]

\* C1: the filter returns exactly the events whose resolved start date lies
\* from today to today + 7 days, both ends included, in the order of the input,
\* none added and none twice.
C1_ExactlyTheWeekInOrder ==
    FilterRan =>
        /\ filtered.status = "returned"
        /\ Len(filtered.log) = Len(events)
        /\ filtered.upcoming = EventsWhere(InTheWeek)

\* Two different events, the first outside the week and the second on its
\* last day: the second alone is returned.
C1_Witness ==
    /\ FilterRan
    /\ Len(events) = 2
    /\ events[1] # events[2]
    /\ filtered.log[1].kind = "skipped"
    /\ filtered.log[2].kind = "added"
    /\ filtered.log[2].event_date = PlusDays(now, 7)
    /\ filtered.upcoming = <<events[2]>>

\* The month and the day of event i's start text, and whether it carries a year.
MatchOf(i) == date_match(events[i].start_time)
DayOf(i) == IntOf(MatchOf(i).day)
MonthNumberOf(i) == MonthOf(MatchOf(i).month_str)
Yearless(i) == MatchOf(i).ok /\ MatchOf(i).year = NoGroup

\* The month and day come before today's in the calendar of one year.
BeforeToday(month, day) == month < now[2] \/ (month = now[2] /\ day < now[3])

ExpectedYear(i) ==
    IF BeforeToday(MonthNumberOf(i), DayOf(i)) THEN now[1] + 1 ELSE now[1]

\* C2: a start text without a year gets the current year, unless its day and
\* month in the current year come strictly before today: then it gets the next
\* year. On 2025-08-15, "20 Aug., 10:00 UTC" is 2025-08-20 and
\* "5 Jan., 10:00 UTC" is 2026-01-05.
C2_YearlessYear ==
    FilterRan =>
        /\ \A i \in 1..Len(events) :
              Yearless(i) =>
                  /\ HasDate(i) =>
                        filtered.log[i].event_date =
                            <<ExpectedYear(i), MonthNumberOf(i), DayOf(i)>>
                  /\ (/\ ValidDate(now[1], MonthNumberOf(i), DayOf(i))
                      /\ ValidDate(ExpectedYear(i), MonthNumberOf(i), DayOf(i)))
                        => HasDate(i)
        /\ (now = <<2025, 8, 15>> /\ events = <<EventWith(StartText(20, Aug, 0))>>)
              => filtered.log = <<[kind |-> "added", event_date |-> <<2025, 8, 20>>]>>
        /\ (now = <<2025, 8, 15>> /\ events = <<EventWith(StartText(5, Jan, 0))>>)
              => filtered.log = <<[kind |-> "skipped", event_date |-> <<2026, 1, 5>>]>>

\* A start text without a year that names today keeps the current year.
C2_Witness ==
    /\ FilterRan
    /\ Len(events) = 1
    /\ Yearless(1)
    /\ filtered.log = <<[kind |-> "added", event_date |-> now]>>

\* Event e's start text does not match the pattern, or names no date of the
\* calendar: in the year it carries, or, without one, in the year it would get.
Unparseable(e) ==
    LET m == date_match(e.start_time)
    IN \/ ~m.ok
       \/ /\ m.ok /\ m.year # NoGroup
          /\ ~ValidDate(IntOf(m.year), MonthOf(m.month_str), IntOf(m.day))
       \/ /\ m.ok /\ m.year = NoGroup
          /\ \/ ~ValidDate(now[1], MonthOf(m.month_str), IntOf(m.day))
             \/ /\ BeforeToday(MonthOf(m.month_str), IntOf(m.day))
                /\ ~ValidDate(now[1] + 1, MonthOf(m.month_str), IntOf(m.day))

Parseable(e) == ~Unparseable(e)

\* C4: an event whose start text does not match or names an invalid date is
\* left out, no exception leaves the filter, and the other events are returned
\* as they are when the filter is given them alone.
C4_BadDatesLeftOut ==
    FilterRan =>
        /\ filtered.status = "returned"
        /\ \A i \in 1..Len(events) :
              Unparseable(events[i]) => filtered.log[i].kind \in {"nomatch", "raise"}
        /\ \A e \in {events[i] : i \in 1..Len(events)} :
              Unparseable(e) => \A j \in 1..Len(filtered.upcoming) : filtered.upcoming[j] # e
        /\ filtered.upcoming =
              filter_upcoming_week_events(now, SelectSeq(events, Parseable)).upcoming

\* An event that names 29 February in a year without one, before an event of
\* the week: the filter returns the second.
C4_Witness ==
    /\ FilterRan
    /\ Len(events) = 2
    /\ filtered.log[1].kind = "raise"
    /\ events[1].start_time = StartText(29, Feb, 2025)
    /\ filtered.log[2].kind = "added"
    /\ filtered.upcoming = <<events[2]>>

(***************************************************************************)
(* The claims about parse_events, under SpecParse.                         *)
(***************************************************************************)
\* parse_events ran on markup the parser took.
ParseRan == parsed # NotRun /\ parsed # Idle /\ ~html.rejected

\* A row with at least 4 cells and a link in column 0, whose parsing does not raise.
GoodRow(row) ==
    /\ row.fault = NoError
    /\ Len(row.cells) >= 4
    /\ ~row.cells[1].link.none

HrefOf(row) == IF row.cells[1].link.href = NoHref THEN "" ELSE row.cells[1].link.href

\* The events are one for each good row of rows, in their order, each with the
\* origin and the href of its row as url, and what its row alone gives.
OneEventForEachGoodRow(rows) ==
    LET good == SelectSeq(rows, GoodRow)
    IN /\ parsed.status = "returned"
       /\ Len(parsed.events) = Len(good)
       /\ \A j \in 1..Len(good) :
             /\ parsed.events[j].url = "https://ctftime.org" \o HrefOf(good[j])
             /\ parsed.events[j] = parse_events(Page(TRUE, TRUE, <<good[j]>>)).events[1]

\* Every <tr> of the table.
AllRows == IF html.table THEN html.trs ELSE <<>>

\* C3, as claimed: one Event for each row of the table that has at least 4
\* cells and a link in column 0, in row order, its url the origin and the href;
\* other rows give none and change nothing.
C3_EveryTableRow == ParseRan => OneEventForEachGoodRow(AllRows)

\* The rows the loop goes over: those of <tbody>, or, in a table without
\* <tbody>, all but the first, which is taken for the header.
BodyRows ==
    IF ~html.table THEN <<>>
    ELSE IF html.tbody THEN html.trs
    ELSE SubSeq(html.trs, 2, Len(html.trs))

\* C3, amended: the same of the rows of <tbody>, or of all rows but the first
\* when the table has no <tbody>.
C3_EveryBodyRow == ParseRan => OneEventForEachGoodRow(BodyRows)

\* A row that raises before a good row, in a <tbody>: one Event, the second row's.
C3_Witness ==
    /\ ParseRan
    /\ html.table /\ html.tbody
    /\ Len(html.trs) = 2
    /\ html.trs[1].fault # NoError
    /\ GoodRow(html.trs[2])
    /\ Len(parsed.events) = 1
    /\ parsed.events[1].url = "https://ctftime.org/event/2"

\* The text of the date cell of row i, stripped, and the event the row gave.
DateText(i) == Strip(BodyRows[i].cells[2].text)

Separators(text) == {k \in 1..Len(text) : text[k] = EmDash}

FirstSeparator(text) == CHOOSE k \in Separators(text) : \A j \in Separators(text) : k <= j

BeforeSeparator(text) == Strip(SubSeq(text, 1, FirstSeparator(text) - 1))
AfterSeparator(text) == Strip(SubSeq(text, FirstSeparator(text) + 1, Len(text)))

\* parse_events ran on a page whose rows are all good, so that event i is row i's.
AllGood == ParseRan /\ \A i \in 1..Len(BodyRows) : GoodRow(BodyRows[i])

\* C8, as claimed: with the separator the date text has a start and an end,
\* neither empty, start_time is the start and duration "<start> to <end>";
\* without it duration is "Unknown" and start_time the whole text.
C8_SeparatorSplitsInTwo ==
    AllGood =>
        \A i \in 1..Len(BodyRows) :
            IF Separators(DateText(i)) # {}
            THEN /\ BeforeSeparator(DateText(i)) # <<>>
                 /\ AfterSeparator(DateText(i)) # <<>>
                 /\ parsed.events[i].start_time = BeforeSeparator(DateText(i))
                 /\ parsed.events[i].duration =
                        BeforeSeparator(DateText(i)) \o To \o AfterSeparator(DateText(i))
            ELSE /\ parsed.events[i].duration = Unknown
                 /\ parsed.events[i].start_time = DateText(i)

\* C8, amended: with exactly one separator, start_time is the stripped text
\* before it and duration "<start> to <end>", <end> the stripped text after
\* it; with several separators, start_time is the stripped text before the
\* first and duration is "Unknown"; without one, duration is "Unknown" and
\* start_time the whole stripped text.
C8_OneSeparatorSplitsInTwo ==
    AllGood =>
        \A i \in 1..Len(BodyRows) :
            CASE Cardinality(Separators(DateText(i))) = 0 ->
                    /\ parsed.events[i].duration = Unknown
                    /\ parsed.events[i].start_time = DateText(i)
              [] Cardinality(Separators(DateText(i))) = 1 ->
                    /\ parsed.events[i].start_time = BeforeSeparator(DateText(i))
                    /\ parsed.events[i].duration =
                          BeforeSeparator(DateText(i)) \o To \o AfterSeparator(DateText(i))
              [] OTHER ->
                    /\ parsed.events[i].start_time = BeforeSeparator(DateText(i))
                    /\ parsed.events[i].duration = Unknown

\* A date cell of a start, the separator and an end, with spaces around them.
C8_Witness ==
    /\ AllGood
    /\ Len(BodyRows) = 1
    /\ BodyRows[1].cells[2].text = <<"a", " ", EmDash, " ", "a">>
    /\ parsed.events[1].start_time = <<"a">>
    /\ parsed.events[1].duration = <<"a", " ", "t", "o", " ", "a">>

\* C10: every Event that parse_events returns has a start text of at least
\* one character.
C10_StartTextNeverEmpty ==
    ParseRan => \A j \in 1..Len(parsed.events) : parsed.events[j].start_time # <<>>

(***************************************************************************)
(* The claim about send_ctf_notification, under SpecNotify.                *)
(***************************************************************************)
NotifyRan == message # NotRun /\ message # Idle

\* The fields of the embed that was sent.
SentFields == message.sends[1].msg.embed.fields

\* Field j is the section of event e.
SectionOf(field, e) ==
    field = [name |-> e.title, start |-> e.start_time, duration |-> e.duration,
             format |-> e.format_type, link |-> e.url]

\* C7: for n events, one message of min(n, 10) sections, those of the first
\* min(n, 10) events in their order, then one note of n - 10 more when n > 10
\* and nothing when n <= 10: 12 events give 10 sections and a note of 2 more,
\* 10 events give 10 sections and no note.
C7_TenSectionsAndANote ==
    NotifyRan =>
        LET n == Len(events)
            k == IF n < 10 THEN n ELSE 10
        IN /\ Len(message.sends) = 1
           /\ message.sends[1].msg.kind = "embed"
           /\ \A j \in 1..k : SectionOf(SentFields[j], events[j])
           /\ IF n > 10
              THEN /\ Len(SentFields) = k + 1
                   /\ SentFields[k + 1] = [name |-> "Note", more |-> n - 10]
              ELSE Len(SentFields) = k
           /\ n = 12 => Len(SentFields) = 11 /\ SentFields[11].more = 2
           /\ n = 10 => Len(SentFields) = 10 /\ SectionOf(SentFields[10], events[10])

\* 12 events, the 10th and the 11th different: 10 sections and the note.
C7_Witness ==
    /\ NotifyRan
    /\ Len(events) = 12
    /\ events[10] # events[11]
    /\ Len(SentFields) = 11
    /\ SectionOf(SentFields[10], events[10])
    /\ SentFields[11] = [name |-> "Note", more |-> 2]
    /\ message.sends[1].delivered

(***************************************************************************)
(* The claims about the bot, under SpecBot and SpecBotFair.                *)
(***************************************************************************)
\* The GET ended in another status than 200, or in an exception.
FetchFailure(response) ==
    response.kind = "exception" \/ (response.kind = "status" /\ response.status # 200)

CheckRan == auto # NotRun /\ auto # Idle

\* The command in cmd got as far as its GET: ctf_check's first send was delivered.
CommandFetched ==
    /\ cmd # Idle
    /\ cmd.name = "ctf_check" => cmd.result.sends[1].delivered

SentTexts(sends) == {sends[i].msg.text : i \in {j \in 1..Len(sends) : sends[j].msg.kind = "text"}}
SentEmbeds(sends) == {i \in 1..Len(sends) : sends[i].msg.kind = "embed"}

\* C5: when the GET ends in another status than 200 or in an exception,
\* fetch_page returns the empty text and raises nothing; check_ctfs as on_ready
\* runs it then sends nothing at all, and ctf_check and next_ctfs send the
\* message that the fetch failed, no embed, and nothing that comes of parsing.
C5_FetchFailureStopsThePipeline ==
    /\ \A response \in Responses :
          FetchFailure(response) =>
              fetch_page(response) = [status |-> "returned", html |-> EmptyBody]
    /\ (CheckRan /\ FetchFailure(auto.response)) =>
          /\ auto.result.status = "returned"
          /\ auto.result.sends = <<>>
    /\ (CommandFetched /\ FetchFailure(cmd.response)) =>
          /\ "Failed to fetch CTFTime page" \in SentTexts(cmd.result.sends)
          /\ SentEmbeds(cmd.result.sends) = {}
          /\ SentTexts(cmd.result.sends) \cap {NoneThisWeek, NoneUpcoming} = {}

\* A 404 answered to next_ctfs with the failure message, after check_ctfs
\* met an exception of the GET and sent nothing.
C5_Witness ==
    /\ CheckRan
    /\ auto.response.kind = "exception"
    /\ auto.result.sends = <<>>
    /\ cmd # Idle
    /\ cmd.name = "next_ctfs"
    /\ cmd.response.kind = "status" /\ cmd.response.status = 404
    /\ cmd.response.body.table
    /\ cmd.result.sends = <<[msg |-> TextMsg(FetchFailed), delivered |-> TRUE]>>

\* The notifications check_ctfs sent as on_ready ran it.
AutoNotifications == IF CheckRan THEN SentEmbeds(auto.result.sends) ELSE {}

\* C6: once on_ready has started check_ctfs, the bot comes to bot.close(),
\* whatever check_ctfs met, and check_ctfs sends at most one notification.
C6_ReadyThenClosed ==
    /\ (ready = "fetching") ~> (ready = "closed")
    /\ [](Cardinality(AutoNotifications) <= 1)
    /\ [](ready # "crashed")

\* The bot closed after the send of the notification raised.
C6_Witness ==
    /\ ready = "closed"
    /\ auto.response.kind = "status" /\ auto.response.status = 200
    /\ Len(auto.result.sends) = 1
    /\ ~auto.result.sends[1].delivered

\* The events parse_events gave next_ctfs.
ParsedForCmd == parse_events(fetch_page(cmd.response).html).events

\* C9: for a limit N, next_ctfs shows the first min(N, number of events)
\* events, in order, and the count in its description is the number of
\* sections it shows.
C9_FirstNAndItsCount ==
    (cmd # Idle /\ cmd.name = "next_ctfs" /\ SentEmbeds(cmd.result.sends) # {}) =>
        LET embed == cmd.result.sends[1].msg.embed
            shown == IF cmd.limit < Len(ParsedForCmd) THEN cmd.limit ELSE Len(ParsedForCmd)
        IN /\ Len(embed.fields) = shown
           /\ \A j \in 1..Len(embed.fields) : SectionOf(embed.fields[j], ParsedForCmd[j])
           /\ embed.count = Len(embed.fields)

====
